---- MODULE Spec2Model ----
(***************************************************************************)
(* Model of the forum client of Gigabitzz/cj (src/forum/forum.go):         *)
(* GetUserProfilePage, its field extractors, the chained reputation lookup *)
(* and the NewPostAlert poller.                                            *)
(*                                                                         *)
(* Text is a sequence of one-character strings.  The result of an xmlpath  *)
(* query for one node is NoNode (no match) or Node(text).                  *)
(***************************************************************************)
EXTENDS Integers, Sequences, FiniteSets, TLC

VARIABLES
    pc,             \* per process: the place in the code it is at
    lastPostCount,  \* per poller: the local of NewPostAlert (line 234)
    pending,        \* per poller: a tick is buffered in ticker.C
    ticks,          \* per poller: ticks the ticker has produced so far
    calls,          \* per poller: invocations of fn so far
    observed,       \* per poller: profile.TotalPosts of every tick that returned no error
    softFailed,     \* per poller: for each of those ticks, whether total posts failed on it
    root,           \* per process: profile page got by GetUserProfilePage (line 53)
    searchRoot,     \* per process: search page got by getReputation (line 142)
    postRoot,       \* per process: discussion page got by getReputation (line 156)
    result,         \* per process: the UserProfile being built / returned
    err,            \* per process: the error GetUserProfilePage returns
    fetches,        \* per process: GetHTMLRoot calls of the current call, in order
    crashed         \* the process died of a run-time panic

vars == <<pc, lastPostCount, pending, ticks, calls, observed, softFailed, root, searchRoot,
          postRoot, result, err, fetches, crashed>>

-----------------------------------------------------------------------------
(* Bounds *)

MaxTicks == 4
MaxTicksTwo == 2
MaxBlocks == 2
MaxMatches == 2
MaxMessageBlocks == 4
MaxNumberLen == 3

-----------------------------------------------------------------------------
(* Text helpers: strings.TrimPrefix, strings.Replace, strings.Trim,        *)
(* strings.Split, strconv.Atoi                                              *)

NoNode == <<>>
Node(t) == <<t>>

\* xmlpath Path.String: ("", false) when no node matches
PathString(n) == IF n = NoNode THEN [s |-> <<>>, ok |-> FALSE] ELSE [s |-> n[1], ok |-> TRUE]

HasPrefix(s, p) == Len(s) >= Len(p) /\ SubSeq(s, 1, Len(p)) = p

TrimPrefix(s, p) == IF HasPrefix(s, p) THEN SubSeq(s, Len(p) + 1, Len(s)) ELSE s

\* variant: strings.Replace(s, old, "", 1), only the first occurrence goes
RemoveFirst(s, c) ==
    IF \A i \in 1..Len(s) : s[i] # c THEN s
    ELSE LET i == CHOOSE k \in 1..Len(s) : s[k] = c /\ \A j \in 1..(k - 1) : s[j] # c
         IN  SubSeq(s, 1, i - 1) \o SubSeq(s, i + 1, Len(s))

\* strings.Replace(s, old, "", -1) for a one-character old
RemoveAll(s, c) == SelectSeq(s, LAMBDA x : x # c)

RECURSIVE TrimLeft(_, _)
TrimLeft(s, cut) == IF s # <<>> /\ Head(s) \in cut THEN TrimLeft(Tail(s), cut) ELSE s

RECURSIVE TrimRight(_, _)
TrimRight(s, cut) ==
    IF s # <<>> /\ s[Len(s)] \in cut THEN TrimRight(SubSeq(s, 1, Len(s) - 1), cut) ELSE s

Trim(s, cut) == TrimRight(TrimLeft(s, cut), cut)

\* strings.Split(s, sep) for a one-character sep: always at least one piece
RECURSIVE Split(_, _)
Split(s, sep) ==
    IF \A i \in 1..Len(s) : s[i] # sep
    THEN <<s>>
    ELSE LET i == CHOOSE k \in 1..Len(s) : s[k] = sep /\ \A j \in 1..(k - 1) : s[j] # sep
         IN  <<SubSeq(s, 1, i - 1)>> \o Split(SubSeq(s, i + 1, Len(s)), sep)

Digits == {"0", "1", "2", "3", "4", "5", "6", "7", "8", "9"}

DigitValue(c) ==
    CASE c = "0" -> 0 [] c = "1" -> 1 [] c = "2" -> 2 [] c = "3" -> 3 [] c = "4" -> 4
      [] c = "5" -> 5 [] c = "6" -> 6 [] c = "7" -> 7 [] c = "8" -> 8 [] c = "9" -> 9

RECURSIVE DigitsValue(_)
DigitsValue(s) ==
    IF s = <<>> THEN 0
    ELSE DigitsValue(SubSeq(s, 1, Len(s) - 1)) * 10 + DigitValue(s[Len(s)])

\* strconv.Atoi: an optional sign, then one or more decimal digits
\* (texts here are far too short to leave the range of int)
Atoi(s) ==
    LET body == IF s # <<>> /\ Head(s) \in {"+", "-"} THEN Tail(s) ELSE s
    IN  IF body = <<>> \/ \E i \in 1..Len(body) : body[i] \notin Digits
        THEN [v |-> 0, ok |-> FALSE]
        ELSE [v |-> IF Head(s) = "-" THEN 0 - DigitsValue(body) ELSE DigitsValue(body),
              ok |-> TRUE]

\* all sequences over S of length at most n
SeqsUpTo(S, n) == UNION {[1..k -> S] : k \in 0..n}

-----------------------------------------------------------------------------
(* The literals of the source *)

JoinDatePrefix == <<"J", "o", "i", "n", " ", "D", "a", "t", "e", ":", " ">>
TotalPostsPrefix == <<"T", "o", "t", "a", "l", " ", "P", "o", "s", "t", "s", ":", " ">>
ReputationPrefix == <<"R", "e", "p", "u", "t", "a", "t", "i", "o", "n", ":", " ">>

NoErr == "nil"
ErrHTMLRoot == "failed to get HTML root for user page"
ErrInvalidPage == "url did not lead to a valid user page"
ErrJoinDate == "join date xmlpath did not return a result"
ErrPostsPath == "total posts xmlpath did not return a result"
ErrPostsConv == "cannot convert posts to integer"
ErrRepSearch == "cannot get user's posts"
ErrRepNoPost == "cannot get user posts"
ErrRepTopic == "cannot get user's post in a topic"
ErrRepConv == "cannot convert reputation to integer"
ErrBio == "user bio xmlpath did not return a result"
ErrMessages == "visitor messages xmlpath did not return a result"

\* var result UserProfile: every field at its zero value
ZeroProfile ==
    [UserName |-> <<>>, JoinDate |-> <<>>, TotalPosts |-> 0, Reputation |-> 0,
     BioText |-> <<>>, VisitorMessages |-> <<>>, Errors |-> <<>>]

-----------------------------------------------------------------------------
(* Documents.  A profile page is what its six location queries find in it:  *)
(*   user, join, posts, bio : NoNode or Node(text)                          *)
(*   msgs : NoNode (no element with id message_list) or Node(blocks), the   *)
(*          children of the container, each [user, text] of nodes           *)
(* A search page is [href], the first permalink found; a discussion page is *)
(* one post table: [id, reps], reps the texts of its 'Reputation: ' nodes.  *)
(* A fetch is [st |-> "none"] (not made), [st |-> "err"] or                 *)
(* [st |-> "ok", doc |-> d].                                                *)

NotFetched == [st |-> "none"]
FetchError == [st |-> "err"]
Fetched(d) == [st |-> "ok", doc |-> d]

\* getUserName
getUserName(d) ==
    LET q == PathString(d.user)
    IN  IF ~q.ok
        THEN [val |-> q.s, err |-> "user name xmlpath did not return a result"]
        ELSE [val |-> Trim(q.s, {"\n", " "}), err |-> NoErr]

\* getJoinDate
getJoinDate(d) ==
    LET q == PathString(d.join)
    IN  IF ~q.ok
        THEN [val |-> q.s, err |-> ErrJoinDate]
        ELSE [val |-> TrimPrefix(q.s, JoinDatePrefix), err |-> NoErr]

\* getTotalPosts
getTotalPosts(d) ==
    LET q == PathString(d.posts)
        n == Atoi(RemoveAll(TrimPrefix(q.s, TotalPostsPrefix), ","))
    IN  IF ~q.ok THEN [val |-> 0, err |-> ErrPostsPath]
        ELSE IF ~n.ok THEN [val |-> 0, err |-> ErrPostsConv]
        ELSE [val |-> n.v, err |-> NoErr]

\* getUserBio
getUserBio(d) ==
    LET q == PathString(d.bio)
    IN  IF ~q.ok THEN [val |-> q.s, err |-> ErrBio] ELSE [val |-> q.s, err |-> NoErr]

\* the nodes mainPath selects: the children of the message container
MainPathNodes(d) == IF d.msgs = NoNode THEN <<>> ELSE d.msgs[1]

\* variant: the loop ends at the first block that lacks a piece
RECURSIVE MessageLoopBreaks(_, _)
MessageLoopBreaks(blocks, acc) ==
    IF blocks = <<>> THEN acc
    ELSE LET b == Head(blocks)
         IN  IF b.user = NoNode \/ b.text = NoNode THEN acc
             ELSE MessageLoopBreaks(Tail(blocks),
                                    Append(acc, [UserName |-> b.user[1], Message |-> b.text[1]]))

\* the loop over messageBlock of getFirstTenUserVisitorMessages
RECURSIVE MessageLoop(_, _)
MessageLoop(blocks, acc) ==
    IF blocks = <<>> THEN acc
    ELSE LET b == Head(blocks)
             user == PathString(b.user)
             text == PathString(b.text)
         IN  IF ~user.ok THEN MessageLoop(Tail(blocks), acc)
             ELSE IF ~text.ok THEN MessageLoop(Tail(blocks), acc)
             ELSE MessageLoop(Tail(blocks),
                              Append(acc, [UserName |-> user.s, Message |-> text.s]))

\* getFirstTenUserVisitorMessages
getFirstTenUserVisitorMessages(d) ==
    IF MainPathNodes(d) = <<>>
    THEN [val |-> <<>>, err |-> ErrMessages]
    ELSE [val |-> MessageLoop(MainPathNodes(d), <<>>), err |-> NoErr]

\* variant: a search page without a permalink does not end the lookup
SearchStageIgnoresMiss(f) ==
    IF f.st = "err" THEN [next |-> "return", val |-> 0, err |-> ErrRepSearch]
    ELSE [next |-> "getPost", val |-> 0, err |-> NoErr]

\* getReputation up to the permalink: what the search fetch decides
\* (next = "getPost": go on to fetch the discussion page)
SearchStage(f) ==
    IF f.st = "err" THEN [next |-> "return", val |-> 0, err |-> ErrRepSearch]
    ELSE IF ~PathString(f.doc.href).ok THEN [next |-> "return", val |-> 0, err |-> ErrRepNoPost]
    ELSE [next |-> "getPost", val |-> 0, err |-> NoErr]

\* variant: the first match is kept
FieldsLoopFirstWins(fields, reputation) ==
    IF fields = <<>> THEN reputation ELSE Head(fields)

\* the loop over fields: every match overwrites reputation
RECURSIVE FieldsLoop(_, _)
FieldsLoop(fields, reputation) ==
    IF fields = <<>> THEN reputation ELSE FieldsLoop(Tail(fields), Head(fields))

\* the nodes the reputation path selects in the discussion page
ReputationNodes(post, id) == IF post.id = id THEN post.reps ELSE <<>>

\* getReputation from the label text on
ParseReputation(reputation) ==
    LET n == Atoi(RemoveAll(TrimPrefix(reputation, ReputationPrefix), ","))
    IN  IF ~n.ok THEN [val |-> 0, err |-> ErrRepConv] ELSE [val |-> n.v, err |-> NoErr]

\* getReputation from the discussion-page fetch on; strings.Split(href, "#")[1]
\* panics (index out of range) when href holds no '#'
PostStage(href, f) ==
    IF f.st = "err" THEN [next |-> "return", val |-> 0, err |-> ErrRepTopic]
    ELSE IF Len(Split(href, "#")) < 2 THEN [next |-> "panic", val |-> 0, err |-> NoErr]
    ELSE LET rep == ParseReputation(
                        FieldsLoop(ReputationNodes(f.doc, Split(href, "#")[2]), <<>>))
         IN  [next |-> "return", val |-> rep.val, err |-> rep.err]

\* variant: the error replaces Errors instead of being appended to it
AppendErrOverwrites(errors, e) == IF e # NoErr THEN <<e>> ELSE errors

\* if err != nil { result.Errors = append(result.Errors, err) }
AppendErr(errors, e) == IF e # NoErr THEN Append(errors, e) ELSE errors

SetJoinDate(res, x) == [res EXCEPT !.JoinDate = x.val, !.Errors = AppendErr(@, x.err)]
SetTotalPosts(res, x) == [res EXCEPT !.TotalPosts = x.val, !.Errors = AppendErr(@, x.err)]
\* variant: a failed reputation lookup discards the fields extracted before it
SetReputationAborts(res, x) ==
    IF x.err # NoErr
    THEN [ZeroProfile EXCEPT !.Errors = Append(res.Errors, x.err)]
    ELSE [res EXCEPT !.Reputation = x.val]
SetReputation(res, x) == [res EXCEPT !.Reputation = x.val, !.Errors = AppendErr(@, x.err)]
SetBioText(res, x) == [res EXCEPT !.BioText = x.val, !.Errors = AppendErr(@, x.err)]
SetVisitorMessages(res, x) ==
    [res EXCEPT !.VisitorMessages = x.val, !.Errors = AppendErr(@, x.err)]

\* variant: a missing username is reported but the extraction goes on
ProfileStageNoAbort(f) ==
    IF f.st = "err"
    THEN [next |-> "returned", result |-> ZeroProfile, err |-> ErrHTMLRoot]
    ELSE LET u == getUserName(f.doc)
         IN  [next |-> "getReputation",
              result |-> SetTotalPosts(
                             SetJoinDate([ZeroProfile EXCEPT !.UserName = u.val],
                                         getJoinDate(f.doc)),
                             getTotalPosts(f.doc)),
              err |-> IF u.err # NoErr THEN ErrInvalidPage ELSE NoErr]

\* variant: join date and total posts are extracted before the username is checked
ProfileStageLateCheck(f) ==
    IF f.st = "err"
    THEN [next |-> "returned", result |-> ZeroProfile, err |-> ErrHTMLRoot]
    ELSE LET u == getUserName(f.doc)
             r == SetTotalPosts(SetJoinDate([ZeroProfile EXCEPT !.UserName = u.val],
                                            getJoinDate(f.doc)),
                                getTotalPosts(f.doc))
         IN  IF u.err # NoErr
             THEN [next |-> "returned", result |-> r, err |-> ErrInvalidPage]
             ELSE [next |-> "getReputation", result |-> r, err |-> NoErr]

\* GetUserProfilePage from the profile fetch up to the call of getReputation
ProfileStage(f) ==
    IF f.st = "err"
    THEN [next |-> "returned", result |-> ZeroProfile, err |-> ErrHTMLRoot]
    ELSE LET u == getUserName(f.doc)
         IN  IF u.err # NoErr
             THEN [next |-> "returned",
                   result |-> [ZeroProfile EXCEPT !.UserName = u.val],
                   err |-> ErrInvalidPage]
             ELSE [next |-> "getReputation",
                   result |-> SetTotalPosts(
                                  SetJoinDate([ZeroProfile EXCEPT !.UserName = u.val],
                                              getJoinDate(f.doc)),
                                  getTotalPosts(f.doc)),
                   err |-> NoErr]

\* GetUserProfilePage from the return of getReputation to its own return
FinishProfile(res, d, rep) ==
    SetVisitorMessages(SetBioText(SetReputation(res, rep), getUserBio(d)),
                       getFirstTenUserVisitorMessages(d))

-----------------------------------------------------------------------------
(* Inputs: the documents a fetch may return *)

UserTexts == {<<"\n", "b", "o", "b", "\n">>, <<"\n", " ">>}
JoinTexts == {JoinDatePrefix \o <<"2", "0", "0", "9">>}
BioTexts == {<<"h", "i">>}
PostsTexts ==
    {TotalPostsPrefix \o <<"1">>, TotalPostsPrefix \o <<"2">>,
     TotalPostsPrefix \o <<"1", ",", "2">>, TotalPostsPrefix \o <<"-", "1">>,
     TotalPostsPrefix \o <<"-", "2">>, TotalPostsPrefix \o <<"x">>}
MessageBlocks ==
    {[user |-> Node(<<"a">>), text |-> Node(<<"m">>)],
     [user |-> Node(<<"b">>), text |-> Node(<<"m">>)],
     [user |-> NoNode, text |-> Node(<<"m">>)],
     [user |-> Node(<<"a">>), text |-> NoNode]}
Hrefs == {<<"t", "#", "a">>, <<"t">>}
TableIds == {<<"a">>, <<"b">>}
ReputationTexts ==
    {ReputationPrefix \o <<"5">>, ReputationPrefix \o <<"-", "3">>, ReputationPrefix \o <<"x">>}

Nodes(texts) == {NoNode} \cup {Node(t) : t \in texts}

\* the pages a direct call of GetUserProfilePage is checked on
ProfilePages ==
    [user : Nodes(UserTexts), join : Nodes(JoinTexts),
     posts : Nodes({TotalPostsPrefix \o <<"1", ",", "2">>, TotalPostsPrefix \o <<"x">>}),
     bio : Nodes(BioTexts), msgs : Nodes(SeqsUpTo(MessageBlocks, MaxBlocks))]
SearchPages == [href : Nodes(Hrefs)]
PostPages == [id : TableIds, reps : SeqsUpTo(ReputationTexts, MaxMatches)]

\* the pages the poller is checked on: every post count, the other fields fixed
PolledPages ==
    [user : Nodes({<<"\n", "b", "o", "b", "\n">>}), join : Nodes(JoinTexts) \ {NoNode},
     posts : Nodes(PostsTexts), bio : {NoNode},
     msgs : {Node(<<[user |-> Node(<<"a">>), text |-> Node(<<"m">>)]>>)}]
PolledSearchPages == [href : Nodes(Hrefs)]
PolledPostPages == [id : {<<"a">>}, reps : {<<ReputationPrefix \o <<"5">>>>}]

\* the pages the visitor-message extraction is checked on: every sequence of
\* blocks, the other fields fixed
MessagePages ==
    [user : {Node(<<"b", "o", "b">>)}, join : Nodes(JoinTexts) \ {NoNode},
     posts : {Node(TotalPostsPrefix \o <<"1">>)}, bio : Nodes(BioTexts) \ {NoNode},
     msgs : Nodes(SeqsUpTo(MessageBlocks, MaxMessageBlocks))]

\* the pages the numeric fields are checked on: the label followed by every
\* text over these characters
NumberChars == {"0", "1", ",", "-", "x"}
NumberPages ==
    [user : {Node(<<"b", "o", "b">>)}, join : Nodes(JoinTexts) \ {NoNode},
     posts : {Node(TotalPostsPrefix \o b) : b \in SeqsUpTo(NumberChars, MaxNumberLen)},
     bio : Nodes(BioTexts) \ {NoNode},
     msgs : {Node(<<[user |-> Node(<<"a">>), text |-> Node(<<"m">>)]>>)}]
NumberSearchPages == [href : {Node(<<"t", "#", "a">>)}]
NumberPostPages ==
    [id : {<<"a">>}, reps : {<<ReputationPrefix \o b>> : b \in SeqsUpTo(NumberChars, MaxNumberLen)}]

\* the pages two pollers are checked on
TwoPolledPages ==
    [user : Nodes({<<"\n", "b", "o", "b", "\n">>}), join : Nodes(JoinTexts) \ {NoNode},
     posts : {Node(TotalPostsPrefix \o <<"1">>), Node(TotalPostsPrefix \o <<"2">>)},
     bio : {NoNode},
     msgs : {Node(<<[user |-> Node(<<"a">>), text |-> Node(<<"m">>)]>>)}]

Fetches(pages) == {FetchError} \cup {Fetched(d) : d \in pages}

-----------------------------------------------------------------------------
(* Processes: the goroutines started by NewPostAlert, and a caller that     *)
(* calls GetUserProfilePage directly                                        *)

Direct == "direct"
Pollers == {"p1"}
TwoPollers == {"p1", "p2"}
Procs == {Direct} \cup TwoPollers

Init ==
    /\ pc = [p \in Procs |-> IF p = Direct THEN "idle" ELSE "unstarted"]
    /\ lastPostCount = [p \in Procs |-> -1]
    /\ pending = [p \in Procs |-> FALSE]
    /\ ticks = [p \in Procs |-> 0]
    /\ calls = [p \in Procs |-> 0]
    /\ observed = [p \in Procs |-> <<>>]
    /\ softFailed = [p \in Procs |-> <<>>]
    /\ root = [p \in Procs |-> NotFetched]
    /\ searchRoot = [p \in Procs |-> NotFetched]
    /\ postRoot = [p \in Procs |-> NotFetched]
    /\ result = [p \in Procs |-> ZeroProfile]
    /\ err = [p \in Procs |-> NoErr]
    /\ fetches = [p \in Procs |-> <<>>]
    /\ crashed = FALSE

pollerVars == <<lastPostCount, pending, ticks, calls, observed, softFailed>>
callVars == <<root, searchRoot, postRoot, result, err, fetches>>

\* the locals of one call of GetUserProfilePage go out of scope
DropCall(p) ==
    /\ root' = [root EXCEPT ![p] = NotFetched]
    /\ searchRoot' = [searchRoot EXCEPT ![p] = NotFetched]
    /\ postRoot' = [postRoot EXCEPT ![p] = NotFetched]
    /\ result' = [result EXCEPT ![p] = ZeroProfile]
    /\ err' = [err EXCEPT ![p] = NoErr]
    /\ fetches' = [fetches EXCEPT ![p] = <<>>]

-----------------------------------------------------------------------------
(* GetUserProfilePage, one action per fetch *)

\* GetHTMLRoot(url), then username, join date and total posts
FetchProfile(p, pages) ==
    /\ ~crashed
    /\ pc[p] = "GetUserProfilePage"
    /\ \E f \in Fetches(pages) :
         LET s == ProfileStage(f)
         IN  /\ root' = [root EXCEPT ![p] = f]
             /\ result' = [result EXCEPT ![p] = s.result]
             /\ err' = [err EXCEPT ![p] = s.err]
             /\ pc' = [pc EXCEPT ![p] = s.next]
    /\ fetches' = [fetches EXCEPT ![p] = Append(@, "profile")]
    /\ UNCHANGED <<pollerVars, searchRoot, postRoot, crashed>>

\* getReputation: GetHTMLRoot(search url), then the permalink; when the lookup
\* ends here, bio and visitor messages follow and the call returns
FetchSearch(p, pages) ==
    /\ ~crashed
    /\ pc[p] = "getReputation"
    /\ \E f \in Fetches(pages) :
         LET s == SearchStage(f)
         IN  /\ searchRoot' = [searchRoot EXCEPT ![p] = f]
             /\ IF s.next = "getPost"
                THEN /\ pc' = [pc EXCEPT ![p] = "getPost"]
                     /\ UNCHANGED result
                ELSE /\ pc' = [pc EXCEPT ![p] = "returned"]
                     /\ result' = [result EXCEPT ![p] = FinishProfile(@, root[p].doc, s)]
    /\ fetches' = [fetches EXCEPT ![p] = Append(@, "search")]
    /\ UNCHANGED <<pollerVars, root, postRoot, err, crashed>>

\* getReputation: GetHTMLRoot(permalink), then the reputation label; then bio
\* and visitor messages, and the call returns
FetchPost(p, pages) ==
    /\ ~crashed
    /\ pc[p] = "getPost"
    /\ \E f \in Fetches(pages) :
         LET s == PostStage(PathString(searchRoot[p].doc.href).s, f)
         IN  /\ postRoot' = [postRoot EXCEPT ![p] = f]
             /\ IF s.next = "panic"
                THEN /\ crashed' = TRUE
                     /\ UNCHANGED <<pc, result>>
                ELSE /\ pc' = [pc EXCEPT ![p] = "returned"]
                     /\ result' = [result EXCEPT ![p] = FinishProfile(@, root[p].doc, s)]
                     /\ UNCHANGED crashed
    /\ fetches' = [fetches EXCEPT ![p] = Append(@, "post")]
    /\ UNCHANGED <<pollerVars, root, searchRoot, err>>

\* a direct caller calls GetUserProfilePage
Call(p) ==
    /\ ~crashed
    /\ pc[p] = "idle"
    /\ pc' = [pc EXCEPT ![p] = "GetUserProfilePage"]
    /\ UNCHANGED <<pollerVars, callVars, crashed>>

\* the direct caller has taken the result
Return(p) ==
    /\ ~crashed
    /\ pc[p] = "returned"
    /\ pc' = [pc EXCEPT ![p] = "idle"]
    /\ DropCall(p)
    /\ UNCHANGED <<pollerVars, crashed>>

-----------------------------------------------------------------------------
(* NewPostAlert *)

\* variant: the baseline is taken to be unset at 0 instead of -1
NoBaselineAtZero(last) == last = 0

\* lastPostCount == -1
NoBaseline(last) == last = -1

\* lastPostCount < profile.TotalPosts
Increased(last, total) == last < total

\* variant: a tick is taken wherever the running goroutine is
AtRangeOrBusy(place) == place \notin {"unstarted", "exited"}

\* variant: lastPostCount is one variable shared by all pollers
SetBaselineShared(last, p, total) == [q \in DOMAIN last |-> total]

\* the goroutine is blocked in `for range ticker.C`
AtRange(place) == place = "range"

\* lastPostCount = profile.TotalPosts: the local of this poller's closure
SetBaseline(last, p, total) == [last EXCEPT ![p] = total]

\* the returned profile carries an error of the total-posts field
PostsFailed(errors) ==
    \E i \in 1..Len(errors) : errors[i] \in {ErrPostsPath, ErrPostsConv}

\* variant: an error of the call is skipped and the loop goes on
AfterCallKeepsPolling(e, last, total) ==
    IF e # NoErr THEN "range"
    ELSE IF last = -1 THEN "range"
    ELSE IF last < total THEN "fn"
    ELSE "range"

\* where the loop body goes once the call has returned
AfterCall(e, last, total) ==
    IF e # NoErr THEN "exited"
    ELSE IF NoBaseline(last) THEN "range"
    ELSE IF Increased(last, total) THEN "fn"
    ELSE "range"

\* NewPostAlert(id, fn): the ticker, lastPostCount := -1, go func()
NewPostAlert(p) ==
    /\ ~crashed
    /\ pc[p] = "unstarted"
    /\ pc' = [pc EXCEPT ![p] = "range"]
    /\ lastPostCount' = [lastPostCount EXCEPT ![p] = -1]
    /\ UNCHANGED <<pending, ticks, calls, observed, softFailed, callVars, crashed>>

\* the ticker sends on ticker.C, a channel that buffers one tick and drops
\* the tick when the buffer is full
Tick(p, max) ==
    /\ ~crashed
    /\ pc[p] # "unstarted"
    /\ ticks[p] < max
    /\ ticks' = [ticks EXCEPT ![p] = @ + 1]
    /\ pending' = [pending EXCEPT ![p] = TRUE]
    /\ UNCHANGED <<pc, lastPostCount, calls, observed, softFailed, callVars, crashed>>

\* for range ticker.C: receive a tick and call GetUserProfilePage
Receive(p) ==
    /\ ~crashed
    /\ AtRange(pc[p])
    /\ pending[p]
    /\ pending' = [pending EXCEPT ![p] = FALSE]
    /\ pc' = [pc EXCEPT ![p] = "GetUserProfilePage"]
    /\ UNCHANGED <<lastPostCount, ticks, calls, observed, softFailed, callVars, crashed>>

\* the call has returned: if err != nil return; the first count becomes the
\* baseline; a greater count leads to fn()
Compare(p) ==
    /\ ~crashed
    /\ pc[p] = "returned"
    /\ LET next == AfterCall(err[p], lastPostCount[p], result[p].TotalPosts)
       IN  /\ pc' = [pc EXCEPT ![p] = next]
           /\ observed' = [observed EXCEPT
                             ![p] = IF err[p] = NoErr THEN Append(@, result[p].TotalPosts) ELSE @]
           /\ softFailed' = [softFailed EXCEPT
                               ![p] = IF err[p] = NoErr
                                      THEN Append(@, PostsFailed(result[p].Errors)) ELSE @]
           /\ lastPostCount' = IF err[p] = NoErr /\ NoBaseline(lastPostCount[p])
                              THEN SetBaseline(lastPostCount, p, result[p].TotalPosts)
                              ELSE lastPostCount
           /\ IF next = "fn" THEN UNCHANGED callVars ELSE DropCall(p)
    /\ UNCHANGED <<pending, ticks, calls, crashed>>

\* fn(), then lastPostCount = profile.TotalPosts
Notify(p) ==
    /\ ~crashed
    /\ pc[p] = "fn"
    /\ calls' = [calls EXCEPT ![p] = @ + 1]
    /\ lastPostCount' = SetBaseline(lastPostCount, p, result[p].TotalPosts)
    /\ pc' = [pc EXCEPT ![p] = "range"]
    /\ DropCall(p)
    /\ UNCHANGED <<pending, ticks, observed, softFailed, crashed>>

-----------------------------------------------------------------------------
(* Specifications *)

\* the poller
Next ==
    \E p \in Pollers :
        \/ NewPostAlert(p)
        \/ Tick(p, MaxTicks)
        \/ Receive(p)
        \/ FetchProfile(p, PolledPages)
        \/ FetchSearch(p, PolledSearchPages)
        \/ FetchPost(p, PolledPostPages)
        \/ Compare(p)
        \/ Notify(p)

Spec == Init /\ [][Next]_vars

\* two pollers started by two calls of NewPostAlert on one ForumClient
NextTwo ==
    \E p \in TwoPollers :
        \/ NewPostAlert(p)
        \/ Tick(p, MaxTicksTwo)
        \/ Receive(p)
        \/ FetchProfile(p, TwoPolledPages)
        \/ FetchSearch(p, PolledSearchPages)
        \/ FetchPost(p, PolledPostPages)
        \/ Compare(p)
        \/ Notify(p)

SpecTwo == Init /\ [][NextTwo]_vars

\* direct calls of GetUserProfilePage
NextCall ==
    \/ Call(Direct)
    \/ FetchProfile(Direct, ProfilePages)
    \/ FetchSearch(Direct, SearchPages)
    \/ FetchPost(Direct, PostPages)
    \/ Return(Direct)

SpecCall == Init /\ [][NextCall]_vars

\* direct calls on the pages of the visitor-message extraction
NextMessages ==
    \/ Call(Direct)
    \/ FetchProfile(Direct, MessagePages)
    \/ FetchSearch(Direct, PolledSearchPages)
    \/ FetchPost(Direct, PolledPostPages)
    \/ Return(Direct)

SpecMessages == Init /\ [][NextMessages]_vars

\* direct calls on the pages of the numeric fields
NextNumbers ==
    \/ Call(Direct)
    \/ FetchProfile(Direct, NumberPages)
    \/ FetchSearch(Direct, NumberSearchPages)
    \/ FetchPost(Direct, NumberPostPages)
    \/ Return(Direct)

SpecNumbers == Init /\ [][NextNumbers]_vars

-----------------------------------------------------------------------------
(* Properties of the poller (specification Spec) *)

Range(s) == {s[i] : i \in 1..Len(s)}
MaxOf(s) == CHOOSE x \in Range(s) : \A y \in Range(s) : y <= x
Last(s) == s[Len(s)]

\* C1: on every tick after the first that returns no error, fn is invoked exactly
\* when the observed TotalPosts is greater than the stored baseline, once, and
\* right after the invocation the baseline is the observed value; fn is invoked
\* at no other step.
C1_FiresExactlyOnIncrease ==
    [][\A p \in Pollers :
         /\ (pc[p] = "returned" /\ err[p] = NoErr /\ observed[p] # <<>> /\ pc'[p] # "returned")
                => (pc'[p] = "fn" <=> result[p].TotalPosts > lastPostCount[p])
         /\ (pc[p] = "fn" /\ pc'[p] # "fn")
                => (calls'[p] = calls[p] + 1 /\ lastPostCount'[p] = Last(observed[p]))
         /\ (pc[p] # "fn" \/ pc'[p] = "fn") => calls'[p] = calls[p]]_vars

\* C2: the first tick that returns no error invokes no callback and leaves the
\* baseline equal to the TotalPosts it observed, whatever that value is.
C2_FirstTickSetsBaseline ==
    \A p \in Pollers :
        Len(observed[p]) = 1
            => calls[p] = 0 /\ pc[p] # "fn" /\ lastPostCount[p] = observed[p][1]

C2_Witness ==
    /\ pc["p1"] = "range"
    /\ Len(observed["p1"]) = 1
    /\ observed["p1"][1] = 12

\* C3: once a tick has established the baseline it never goes down: between
\* ticks it is the greatest TotalPosts observed so far.
C3_BaselineIsMaximum ==
    \A p \in Pollers :
        (observed[p] # <<>> /\ pc[p] # "fn") => lastPostCount[p] = MaxOf(observed[p])

\* C4: a call that returns an error invokes no callback and ends the goroutine;
\* from then on the poller fetches nothing, invokes nothing and stays stopped,
\* whatever ticks arrive.
C4_FatalErrorStopsPoller ==
    [][\A p \in Pollers :
         /\ (pc[p] = "returned" /\ err[p] # NoErr)
                => (pc'[p] \in {"returned", "exited"} /\ calls'[p] = calls[p])
         /\ pc[p] = "exited"
                => /\ pc'[p] = "exited"
                   /\ calls'[p] = calls[p]
                   /\ lastPostCount'[p] = lastPostCount[p]
                   /\ fetches'[p] = <<>>
                   /\ root'[p] = NotFetched]_vars

C4_Witness ==
    /\ pc["p1"] = "exited"
    /\ pending["p1"]
    /\ ticks["p1"] = MaxTicks

-----------------------------------------------------------------------------
(* Properties of GetUserProfilePage (specification SpecCall) *)

Returned(p) == pc[p] = "returned"
ReturnedProfile(p) == pc[p] = "returned" /\ err[p] = NoErr

\* what the page holds, field by field
NumberText(text, prefix) == RemoveAll(TrimPrefix(text, prefix), ",")
JoinMissing(d) == d.join = NoNode
PostsMissing(d) == d.posts = NoNode \/ ~Atoi(NumberText(d.posts[1], TotalPostsPrefix)).ok
BioMissing(d) == d.bio = NoNode
MessagesMissing(d) == d.msgs = NoNode \/ d.msgs[1] = <<>>

\* the label nodes of the post the permalink of the search page names
LabelNodes(p) ==
    LET href == searchRoot[p].doc.href[1]
        i == CHOOSE k \in 1..Len(href) : href[k] = "#"
    IN  IF postRoot[p].doc.id = SubSeq(href, i + 1, Len(href)) THEN postRoot[p].doc.reps ELSE <<>>

\* some hop of the reputation lookup failed
ReputationMissing(p) ==
    \/ searchRoot[p].st = "err"
    \/ searchRoot[p].doc.href = NoNode
    \/ postRoot[p].st = "err"
    \/ LabelNodes(p) = <<>>
    \/ ~Atoi(NumberText(Last(LabelNodes(p)), ReputationPrefix)).ok

MissingFields(p) ==
    {f \in {"join", "posts", "reputation", "bio", "messages"} :
        \/ f = "join" /\ JoinMissing(root[p].doc)
        \/ f = "posts" /\ PostsMissing(root[p].doc)
        \/ f = "reputation" /\ ReputationMissing(p)
        \/ f = "bio" /\ BioMissing(root[p].doc)
        \/ f = "messages" /\ MessagesMissing(root[p].doc)}

FieldOf(e) ==
    CASE e = ErrJoinDate -> "join"
      [] e \in {ErrPostsPath, ErrPostsConv} -> "posts"
      [] e \in {ErrRepSearch, ErrRepNoPost, ErrRepTopic, ErrRepConv} -> "reputation"
      [] e = ErrBio -> "bio"
      [] e = ErrMessages -> "messages"
      [] OTHER -> "none"

ErrorFields(p) == [i \in 1..Len(result[p].Errors) |-> FieldOf(result[p].Errors[i])]

C6_FieldsAreIndependent ==
    ReturnedProfile(Direct) =>
        LET d == root[Direct].doc
            r == result[Direct]
        IN  /\ r.UserName = Trim(d.user[1], {"\n", " "})
            /\ r.JoinDate = IF JoinMissing(d) THEN <<>> ELSE TrimPrefix(d.join[1], JoinDatePrefix)
            /\ r.TotalPosts = IF PostsMissing(d) THEN 0
                              ELSE Atoi(NumberText(d.posts[1], TotalPostsPrefix)).v
            /\ r.Reputation = IF ReputationMissing(Direct) THEN 0
                              ELSE Atoi(NumberText(Last(LabelNodes(Direct)), ReputationPrefix)).v
            /\ r.BioText = IF BioMissing(d) THEN <<>> ELSE d.bio[1]
            /\ r.VisitorMessages = IF MessagesMissing(d) THEN <<>>
                                   ELSE MessageLoop(d.msgs[1], <<>>)

C6_Witness ==
    /\ ReturnedProfile(Direct)
    /\ MissingFields(Direct) = {"reputation", "bio"}
    /\ result[Direct].JoinDate = <<"2", "0", "0", "9">>
    /\ result[Direct].TotalPosts = 12
    /\ Len(result[Direct].VisitorMessages) = 1

\* C7: a failed profile fetch or a missing username location makes the call
\* return an error with every field of the profile at its zero value and Errors
\* empty, after the profile fetch alone: no search or discussion page is fetched.
C7_FatalReturnsNothing ==
    Returned(Direct) =>
        /\ (root[Direct].st = "err" \/ root[Direct].doc.user = NoNode) => err[Direct] # NoErr
        /\ err[Direct] # NoErr =>
               /\ result[Direct] = ZeroProfile
               /\ fetches[Direct] = <<"profile">>
               /\ searchRoot[Direct] = NotFetched
               /\ postRoot[Direct] = NotFetched

C7_Witness ==
    /\ Returned(Direct)
    /\ err[Direct] = ErrInvalidPage
    /\ root[Direct].doc.join # NoNode
    /\ root[Direct].doc.posts # NoNode

\* C8: a profile returned with a nil error has a non-empty UserName.
C8_UserNameNonEmpty ==
    ReturnedProfile(Direct) => result[Direct].UserName # <<>>

\* C9: the reputation lookup never crashes the call, and whichever hop fails the
\* profile is returned with Reputation 0 and exactly one Errors entry for it.
C9_ReputationFailsSoftly ==
    /\ ~crashed
    /\ (ReturnedProfile(Direct) /\ ReputationMissing(Direct)) =>
           /\ result[Direct].Reputation = 0
           /\ Cardinality({i \in 1..Len(ErrorFields(Direct)) :
                              ErrorFields(Direct)[i] = "reputation"}) = 1

\* C10: when the search page holds no post permalink the lookup ends there:
\* the discussion page is never fetched, Reputation is 0 and Errors has one
\* entry for it.
C10_NoPermalinkNoFetch ==
    (searchRoot[Direct].st = "ok" /\ searchRoot[Direct].doc.href = NoNode) =>
        /\ Returned(Direct)
        /\ postRoot[Direct] = NotFetched
        /\ fetches[Direct] = <<"profile", "search">>
        /\ result[Direct].Reputation = 0
        /\ SelectSeq(result[Direct].Errors, LAMBDA e : FieldOf(e) = "reputation")
               = <<ErrRepNoPost>>

C10_Witness ==
    /\ ReturnedProfile(Direct)
    /\ searchRoot[Direct].st = "ok"
    /\ searchRoot[Direct].doc.href = NoNode
    /\ result[Direct].BioText # <<>>

\* C11: the visitor-message extraction records an error exactly when the
\* message container is absent from the page; a container that is present with
\* no blocks, or with malformed blocks only, gives no messages and no error.
C11_ErrorOnlyWithoutContainer ==
    ReturnedProfile(Direct) =>
        /\ (\E i \in 1..Len(result[Direct].Errors) : result[Direct].Errors[i] = ErrMessages)
               <=> root[Direct].doc.msgs = NoNode
        /\ root[Direct].doc.msgs # NoNode
               => Len(result[Direct].VisitorMessages) <= Len(root[Direct].doc.msgs[1])

\* C16: when the reputation query finds one or more label nodes in the post's
\* table, the reputation is parsed from the last of them.
C16_LastMatchWins ==
    (ReturnedProfile(Direct) /\ postRoot[Direct].st = "ok" /\ LabelNodes(Direct) # <<>>) =>
        LET n == Atoi(NumberText(Last(LabelNodes(Direct)), ReputationPrefix))
        IN  /\ result[Direct].Reputation = n.v
            /\ (\E i \in 1..Len(result[Direct].Errors) : result[Direct].Errors[i] = ErrRepConv)
                   <=> ~n.ok

C16_Witness ==
    /\ ReturnedProfile(Direct)
    /\ postRoot[Direct].st = "ok"
    /\ LabelNodes(Direct) = <<ReputationPrefix \o <<"5">>, ReputationPrefix \o <<"-", "3">>>>
    /\ result[Direct].Reputation = -3

\* C20: within one call the fetches are issued in the order profile, search,
\* discussion page, at most three of them: the search page only after the
\* profile page was got and its username resolved, the discussion page only
\* after the search page was got and held a permalink.
C20_FetchesInOrder ==
    LET f == fetches[Direct]
    IN  /\ f \in {<<>>, <<"profile">>, <<"profile", "search">>, <<"profile", "search", "post">>}
        /\ root[Direct].st # "none" <=> Len(f) >= 1
        /\ searchRoot[Direct].st # "none" <=> Len(f) >= 2
        /\ postRoot[Direct].st # "none" <=> Len(f) = 3
        /\ Len(f) >= 2 => (root[Direct].st = "ok" /\ root[Direct].doc.user # NoNode)
        /\ Len(f) = 3 => (searchRoot[Direct].st = "ok" /\ searchRoot[Direct].doc.href # NoNode)

C20_Witness ==
    /\ ReturnedProfile(Direct)
    /\ fetches[Direct] = <<"profile", "search", "post">>
    /\ MissingFields(Direct) = {"join", "posts", "bio", "messages"}

\* C18: TotalPosts of a returned profile is never negative, and so neither is
\* the baseline of the poller once a tick has established it.
C18_TotalPostsNonNegative ==
    \A p \in Pollers :
        /\ result[p].TotalPosts >= 0
        /\ observed[p] # <<>> => lastPostCount[p] >= 0

\* C15: once the poller holds a baseline it never again is in the condition
\* without a baseline, in which the next count is recorded without comparison.
C15_ArmedStaysArmed ==
    [][\A p \in Pollers : ~NoBaseline(lastPostCount[p]) => ~NoBaseline(lastPostCount'[p])]_vars

-----------------------------------------------------------------------------
(* Properties of the visitor messages (specification SpecMessages) *)

WellFormed(b) == b.user # NoNode /\ b.text # NoNode
AsMessages(blocks) ==
    [i \in 1..Len(blocks) |-> [UserName |-> blocks[i].user[1], Message |-> blocks[i].text[1]]]

-----------------------------------------------------------------------------
(* Properties of the numeric fields (specification SpecNumbers) *)

AfterLabel(text, label) == SubSeq(text, Len(label) + 1, Len(text))
Unseparated(s) == SelectSeq(s, LAMBDA c : c # ",")
Unsigned(s) == IF s # <<>> /\ Head(s) \in {"+", "-"} THEN Tail(s) ELSE s
IsNumber(s) == Unsigned(s) # <<>> /\ \A i \in 1..Len(Unsigned(s)) : Unsigned(s)[i] \in Digits

RECURSIVE Horner(_, _)
Horner(s, acc) == IF s = <<>> THEN acc ELSE Horner(Tail(s), acc * 10 + DigitValue(Head(s)))
NumberValue(s) == IF Head(s) = "-" THEN 0 - Horner(Unsigned(s), 0) ELSE Horner(Unsigned(s), 0)

ErrorCount(p, field) ==
    Cardinality({i \in 1..Len(result[p].Errors) : FieldOf(result[p].Errors[i]) = field})

\* C17: a numeric field whose text is the label followed by a decimal number
\* with thousands separators gets that number with the separators removed; a
\* text that is no number once label and separators are stripped gives the
\* value 0 and one error, and the call still returns.
C17_SeparatorsStripped ==
    ReturnedProfile(Direct) =>
        LET posts == Unseparated(AfterLabel(root[Direct].doc.posts[1], TotalPostsPrefix))
        IN  /\ IF IsNumber(posts)
               THEN result[Direct].TotalPosts = NumberValue(posts)
                    /\ ErrorCount(Direct, "posts") = 0
               ELSE result[Direct].TotalPosts = 0 /\ ErrorCount(Direct, "posts") = 1
            /\ postRoot[Direct].st = "ok" =>
                   LET rep == Unseparated(AfterLabel(postRoot[Direct].doc.reps[1],
                                                     ReputationPrefix))
                   IN  IF IsNumber(rep)
                       THEN result[Direct].Reputation = NumberValue(rep)
                            /\ ErrorCount(Direct, "reputation") = 0
                       ELSE result[Direct].Reputation = 0
                            /\ ErrorCount(Direct, "reputation") = 1

C17_Witness ==
    /\ ReturnedProfile(Direct)
    /\ root[Direct].doc.posts = Node(TotalPostsPrefix \o <<"1", ",", "0">>)
    /\ result[Direct].TotalPosts = 10
    /\ postRoot[Direct].st = "ok"
    /\ postRoot[Direct].doc.reps = <<ReputationPrefix \o <<"1", ",", "x">>>>
    /\ result[Direct].Errors = <<ErrRepConv>>

-----------------------------------------------------------------------------
(* More properties of the poller (specifications Spec and SpecTwo) *)

InHandler(p) == pc[p] \in {"GetUserProfilePage", "getReputation", "getPost", "returned", "fn"}

\* C13: the ticks of one poller are handled one after the other: a tick is
\* taken from ticker.C only while the goroutine waits for one, with no call in
\* progress; a tick that arrives while a handler runs (a fetch, the comparison
\* or the callback) starts nothing, and the handler ends only by going back to
\* wait or by returning.
C13_TicksSerialized ==
    [][\A p \in Pollers :
         /\ (pending[p] /\ ~pending'[p])
                => (pc[p] = "range" /\ pc'[p] = "GetUserProfilePage" /\ fetches[p] = <<>>)
         /\ (InHandler(p) /\ ticks'[p] # ticks[p])
                => (pc'[p] = pc[p] /\ fetches'[p] = fetches[p] /\ calls'[p] = calls[p])
         /\ (~InHandler(p) /\ InHandler(p)') => (pc[p] = "range" /\ pending[p])
         /\ (InHandler(p) /\ ~InHandler(p)') => pc'[p] \in {"range", "exited"}]_vars

C13_Witness ==
    /\ pc["p1"] = "fn"
    /\ pending["p1"]
    /\ ticks["p1"] = 3

\* C19: fn is invoked only on a tick whose total posts were extracted and are
\* greater than the total posts extracted on some earlier tick of the poller;
\* a tick on which the field failed neither fires nor sets a baseline that
\* lets a later tick fire.
C19_SoftFailureNeverNotifies ==
    \A p \in Pollers :
        pc[p] = "fn" =>
            LET n == Len(observed[p])
            IN  /\ ~softFailed[p][n]
                /\ \E i \in 1..(n - 1) : ~softFailed[p][i] /\ observed[p][i] < observed[p][n]

\* what a poller that runs alone holds after observing obs
RECURSIVE Alone(_, _)
Alone(obs, st) ==
    IF obs = <<>> THEN st
    ELSE Alone(Tail(obs),
               IF st.last = -1 THEN [last |-> Head(obs), calls |-> st.calls]
               ELSE IF st.last < Head(obs) THEN [last |-> Head(obs), calls |-> st.calls + 1]
               ELSE st)

OwnState(p) == <<pc[p], lastPostCount[p], pending[p], ticks[p], calls[p], observed[p],
                 softFailed[p], root[p], searchRoot[p], postRoot[p], result[p], err[p],
                 fetches[p]>>

\* C14: two pollers share no state: between its ticks each one holds the
\* baseline and the number of invocations it would hold running alone on the
\* counts it observed, no step of one poller changes anything of the other,
\* and one poller ending on a fatal error leaves the other as it is.
C14_PollersIndependent ==
    /\ [](\A p \in TwoPollers :
            pc[p] \in {"range", "exited"} =>
                LET alone == Alone(observed[p], [last |-> -1, calls |-> 0])
                IN  lastPostCount[p] = alone.last /\ calls[p] = alone.calls)
    /\ [][\A p \in TwoPollers : \A q \in TwoPollers \ {p} :
            OwnState(p)' # OwnState(p) => OwnState(q)' = OwnState(q)]_vars

C14_Witness ==
    /\ pc["p1"] = "exited"
    /\ observed["p1"] = <<2>>
    /\ lastPostCount["p1"] = 2
    /\ pc["p2"] = "fn"
    /\ observed["p2"] = <<1, 2>>
    /\ lastPostCount["p2"] = 1

====
